---- MODULE Spec2Model ----
(***************************************************************************)
(* GlobalObjectManager of fastapi_sugar/utils/global_manager.py: the       *)
(* registry of global objects, its dependency graph (a networkx DiGraph),  *)
(* lazy recursive resolution (_get_instance), startup and shutdown.        *)
(* Every public call of the manager is one action; the constructors,       *)
(* setup() and teardown() of the registered classes are the environment    *)
(* and may raise.                                                           *)
(*   Spec            register, get, startup, shutdown                       *)
(*   SpecDepends     the same with depends() and the accessors it returns   *)
(*   SpecThreads     two execution contexts in get, statement by statement  *)
(*   SpecMiddleware  LoggingContextMiddleware.dispatch of                   *)
(*                   fastapi_sugar/api/logging_context_middleware.py        *)
(***************************************************************************)
EXTENDS Integers, Sequences, FiniteSets, TLC

VARIABLES instances, dependencies, dependency_graph, constructed, log, last, repeats, started, nregs, ncalls,
          accessor, frames, inits, setups, logger, requests, request_count

\* instances, dependencies, dependency_graph: the fields of the manager.
\* constructed: the classes that have an instance in the cache, in the order
\*   in which these instances were constructed.
\* log: the constructor, setup() and teardown() calls made by the last call
\*   of the manager, in order.
\* last: the last call of the manager, the error it raised and what it
\*   returned.
\* repeats: whether the last call repeats the call before it: a shutdown()
\*   directly after a shutdown() that raised, that tore an instance down or
\*   that found none, or a get of the class whose constructor raised in the
\*   call before.
\* started: startup() has returned without error and only get and startup
\*   were called since.
\* nregs, ncalls: the number of register calls and of other calls so far.
\* accessor: the function `lambda: instance` of the Depends object that
\*   depends() returned last (None before): the class, the instance the
\*   function has captured, and whether that object is the one in the cache.
\* frames: for every execution context, the call stack of its get: one frame
\*   per _get_instance call, the innermost last.
\* inits, setups: for every class, the number of constructor calls and of
\*   setup() calls that have returned, counted where contexts run
\*   concurrently.
thread_vars == <<frames, inits, setups>>

\* logger: the keyword arguments bound to the module-level
\*   fastapi_sugar.logging.logger.
\* requests: for every task of the event loop, the request it dispatches.
\* request_count: the number of requests dispatched so far.
middleware_vars == <<logger, requests, request_count>>

vars == <<instances, dependencies, dependency_graph, constructed, log, last, repeats, started, nregs, ncalls,
          accessor, thread_vars, middleware_vars>>

(***************************************************************************)
(* Bounds                                                                  *)
(***************************************************************************)
\* longest dependency list passed to register
MaxDeps == 1
\* number of register calls in one run
MaxRegisters == 2
\* number of get, startup and shutdown calls in one run
MaxCalls == 3
\* number of requests dispatched in one run
MaxRequests == 3

(***************************************************************************)
(* The registrable classes                                                 *)
(***************************************************************************)
Types == {"AppSettings", "Logger", "Client"}

\* None as the value of a cache entry (_instances[cls] = None)
None == [cls |-> "None"]

\* None as the result of param_name: no parameter name
NoName == <<>>

\* classes derived from GlobalObjectProxy
ProxyTypes == {"AppSettings", "Logger"}

\* the execution contexts that call get concurrently
Contexts == {"t1", "t2"}

\* the tasks of the event loop that dispatch requests concurrently
Tasks == {"r1", "r2"}

\* the paths of the requests
Paths == {"/health", "/docs"}

\* a task that dispatches no request
Idle == [pc |-> "idle", request_id |-> "None", path |-> "None", logged |-> <<>>]

(***************************************************************************)
(* Sequence helpers                                                        *)
(***************************************************************************)
Range(s) == {s[i] : i \in 1..Len(s)}

Contains(s, x) == \E i \in 1..Len(s) : s[i] = x

Reverse(s) == [i \in 1..Len(s) |-> s[Len(s) + 1 - i]]

RECURSIVE Remove(_, _)
Remove(s, x) ==
  IF s = <<>> THEN <<>>
  ELSE IF Head(s) = x THEN Remove(Tail(s), x)
  ELSE <<Head(s)>> \o Remove(Tail(s), x)

\* the dependency lists register is called with: no repeated element
DepLists ==
  {s \in UNION {[1..n -> Types] : n \in 0..MaxDeps} :
     \A i, j \in 1..Len(s) : i # j => s[i] # s[j]}

(***************************************************************************)
(* networkx.DiGraph: nodes in insertion order, successors of each node in  *)
(* insertion order                                                         *)
(***************************************************************************)
DiGraph == [nodes |-> <<>>, succ |-> [t \in Types |-> <<>>]]

add_node(G, n) ==
  IF Contains(G.nodes, n) THEN G ELSE [G EXCEPT !.nodes = Append(@, n)]

add_edge(G, u, v) ==
  LET G1 == add_node(add_node(G, u), v)
  IN IF Contains(G1.succ[u], v) THEN G1
     ELSE [G1 EXCEPT !.succ[u] = Append(@, v)]

in_degree(G, v) == Cardinality({u \in Range(G.nodes) : Contains(G.succ[u], v)})

\* the inner loop of topological_generations over the children of one node
RECURSIVE VisitChildren(_, _, _)
VisitChildren(children, indegree_map, zero_indegree) ==
  IF children = <<>>
  THEN [indegree_map |-> indegree_map, zero_indegree |-> zero_indegree]
  ELSE LET child == Head(children)
           d == indegree_map[child] - 1
       IN VisitChildren(Tail(children),
                        [indegree_map EXCEPT ![child] = d],
                        IF d = 0 THEN Append(zero_indegree, child) ELSE zero_indegree)

\* the loop of topological_generations over the nodes of one generation
RECURSIVE VisitGeneration(_, _, _, _)
VisitGeneration(G, generation, indegree_map, zero_indegree) ==
  IF generation = <<>>
  THEN [indegree_map |-> indegree_map, zero_indegree |-> zero_indegree]
  ELSE LET r == VisitChildren(G.succ[Head(generation)], indegree_map, zero_indegree)
       IN VisitGeneration(G, Tail(generation), r.indegree_map, r.zero_indegree)

\* order: the nodes yielded; feasible: FALSE when the generator ends by
\* raising NetworkXUnfeasible
RECURSIVE topological_generations(_, _, _)
topological_generations(G, zero_indegree, indegree_map) ==
  IF zero_indegree = <<>>
  THEN [order |-> <<>>,
        feasible |-> \A v \in Range(G.nodes) : indegree_map[v] = 0]
  ELSE LET r == VisitGeneration(G, zero_indegree, indegree_map, <<>>)
           rest == topological_generations(G, r.zero_indegree, r.indegree_map)
       IN [order |-> zero_indegree \o rest.order, feasible |-> rest.feasible]

topological_sort(G) ==
  topological_generations(G,
    SelectSeq(G.nodes, LAMBDA v : in_degree(G, v) = 0),
    [v \in Types |-> in_degree(G, v)])

is_directed_acyclic_graph(G) == topological_sort(G).feasible

(***************************************************************************)
(* GlobalObject.param_name: the class name converted from camel case to    *)
(* snake case; Logger overrides it and returns None                        *)
(***************************************************************************)
\* cls.__name__ as a sequence of characters
ClassName(cls) ==
  CASE cls = "AppSettings" -> <<"A", "p", "p", "S", "e", "t", "t", "i", "n", "g", "s">>
    [] cls = "Logger" -> <<"L", "o", "g", "g", "e", "r">>
    [] cls = "Client" -> <<"C", "l", "i", "e", "n", "t">>

UpperCase == {"A", "C", "L", "S"}

\* str.lower on one character
lower(ch) ==
  CASE ch = "A" -> "a"
    [] ch = "C" -> "c"
    [] ch = "L" -> "l"
    [] ch = "S" -> "s"
    [] OTHER -> ch

\* re.sub(r'(?<!^)(?=[A-Z])', '_', name).lower(), name[i..] still to convert
RECURSIVE SnakeCase(_, _)
SnakeCase(name, i) ==
  IF i > Len(name) THEN <<>>
  ELSE (IF i > 1 /\ name[i] \in UpperCase THEN <<"_">> ELSE <<>>)
       \o <<lower(name[i])>> \o SnakeCase(name, i + 1)

param_name(cls) ==
  IF cls = "Logger" THEN NoName ELSE SnakeCase(ClassName(cls), 1)

(***************************************************************************)
(* What the environment does in one call of the manager: at most one of   *)
(* the user-supplied methods raises, because the first exception ends the  *)
(* call.  NoFail: nothing raises.                                          *)
(***************************************************************************)
NoFail == [cls |-> "none", kind |-> "none"]

ResolveFails ==
  {NoFail}
  \cup [cls : Types,
        kind : {"init_TypeError", "init_Exception", "setup_TypeError", "setup_Exception"}]
  \cup [cls : ProxyTypes, kind : {"payload_not_set"}]

TeardownFails == {NoFail} \cup [cls : Types, kind : {"teardown_Exception"}]

(***************************************************************************)
(* Instances and the record of the calls made on the registered classes   *)
(***************************************************************************)
\* the object cls(**dep_instances) returns, before setup()
NewInstance(cls) ==
  [cls |-> cls, setup_done |-> FALSE, payload |-> FALSE, teardown_raised |-> FALSE]

\* one call of a constructor ("init"), setup() or teardown(): exc is the
\* exception it raised or "none"; for a constructor, cache is _instances at
\* the moment of the call and kwargs are the keyword arguments
Event(ev, cls, exc, cache, kwargs) ==
  [ev |-> ev, cls |-> cls, exc |-> exc, cache |-> cache, kwargs |-> kwargs]

\* GlobalObject.setup / GlobalObjectProxy.setup on the cached instance of cls
\* st: [instances, constructed, log, err]
setup(st, cls, fail) ==
  LET raised == fail.cls = cls /\ fail.kind \in {"setup_TypeError", "setup_Exception", "payload_not_set"}
      exc == IF ~raised THEN "none"
             ELSE CASE fail.kind = "setup_TypeError" -> "TypeError"
                    [] fail.kind = "setup_Exception" -> "Exception"
                    [] fail.kind = "payload_not_set" -> "RuntimeError"
      st1 == [st EXCEPT !.log = Append(@, Event("setup", cls, exc, <<>>, <<>>))]
  IN IF raised
     THEN [st1 EXCEPT !.err = IF exc = "TypeError" THEN "InstantiationFailed" ELSE exc]
     ELSE [st1 EXCEPT !.instances[cls] =
             [@ EXCEPT !.setup_done = TRUE, !.payload = (cls \in ProxyTypes)]]

\* Instantiate with the cache entry filled before the constructor has returned
Instantiate_store_first(st, cls, dep_instances, fail) ==
  LET raised == fail.cls = cls /\ fail.kind \in {"init_TypeError", "init_Exception"}
      exc == IF ~raised THEN "none"
             ELSE IF fail.kind = "init_TypeError" THEN "TypeError" ELSE "Exception"
      st1 == [st EXCEPT !.log = Append(@, Event("init", cls, exc, st.instances, dep_instances)),
                        !.instances[cls] = NewInstance(cls),
                        !.constructed = Append(@, cls)]
  IN IF raised
     THEN [st1 EXCEPT !.err = IF exc = "TypeError" THEN "InstantiationFailed" ELSE exc]
     ELSE setup(st1, cls, fail)

\* lines 186-191 of _get_instance: cls(**dep_instances), then setup()
Instantiate(st, cls, dep_instances, fail) ==
  LET raised == fail.cls = cls /\ fail.kind \in {"init_TypeError", "init_Exception"}
      exc == IF ~raised THEN "none"
             ELSE IF fail.kind = "init_TypeError" THEN "TypeError" ELSE "Exception"
      st1 == [st EXCEPT !.log = Append(@, Event("init", cls, exc, st.instances, dep_instances))]
  IN IF raised
     THEN [st1 EXCEPT !.err = IF exc = "TypeError" THEN "InstantiationFailed" ELSE exc]
     ELSE setup([st1 EXCEPT !.instances[cls] = NewInstance(cls),
                            !.constructed = Append(@, cls)],
                cls, fail)

\* dep_instances[param_name] = dep_instance
SetItem(d, k, v) == [x \in DOMAIN d \cup {k} |-> IF x = k THEN v ELSE d[x]]

RECURSIVE ResolveDeps(_, _, _, _)
RECURSIVE get_instance(_, _, _, _)

\* the loop of lines 179-184 over the dependency list deps
\* r: [st, dep_instances]
ResolveDeps(r, deps, fail, stack) ==
  IF deps = <<>> \/ r.st.err # "none" THEN r
  ELSE LET dep == Head(deps)
           st1 == get_instance(r.st, dep, fail, stack)
       IN IF st1.err # "none" THEN [r EXCEPT !.st = st1]
          ELSE ResolveDeps(
                 [st |-> st1,
                  dep_instances |->
                    IF param_name(dep) = NoName THEN r.dep_instances
                    ELSE SetItem(r.dep_instances, param_name(dep), st1.instances[dep])],
                 Tail(deps), fail, stack)

\* _get_instance without the test of line 176: a cached instance is rebuilt
get_instance_rebuild(st, cls, fail, stack) ==
  IF cls \notin DOMAIN st.instances THEN [st EXCEPT !.err = "NotRegistered"]
  ELSE IF cls \in stack THEN [st EXCEPT !.err = "RecursionError"]
  ELSE LET r == ResolveDeps([st |-> st, dep_instances |-> <<>>],
                            dependencies[cls], fail, stack \cup {cls})
       IN IF r.st.err # "none" THEN r.st
          ELSE Instantiate([r.st EXCEPT !.constructed = Remove(@, cls)],
                           cls, r.dep_instances, fail)

\* _get_instance(cls); stack: the classes whose _get_instance is on the call
\* stack.  Entering a class that is on the call stack again repeats the same
\* calls without end: Python ends it with RecursionError
get_instance(st, cls, fail, stack) ==
  IF cls \notin DOMAIN st.instances THEN [st EXCEPT !.err = "NotRegistered"]
  ELSE IF st.instances[cls] # None THEN st
  ELSE IF cls \in stack THEN [st EXCEPT !.err = "RecursionError"]
  ELSE LET r == ResolveDeps([st |-> st, dep_instances |-> <<>>],
                            dependencies[cls], fail, stack \cup {cls})
       IN IF r.st.err # "none" THEN r.st
          ELSE Instantiate(r.st, cls, r.dep_instances, fail)

\* the state of the manager at the start of a call
Entry == [instances |-> instances, constructed |-> constructed, log |-> <<>>, err |-> "none"]

(***************************************************************************)
(* The manager: GlobalObjectManager.__init__ and its public methods        *)
(***************************************************************************)
\* no execution context has called the manager
NoThreads ==
  /\ frames = [t \in Contexts |-> <<>>]
  /\ inits = [c \in Types |-> 0]
  /\ setups = [c \in Types |-> 0]

\* logger = loguru_logger.bind(request_id=None, method=None), and no request
\* has been dispatched
NoRequests ==
  /\ logger = [request_id |-> "None", method |-> "None"]
  /\ requests = [t \in Tasks |-> Idle]
  /\ request_count = 0

Init ==
  /\ instances = <<>>
  /\ dependencies = <<>>
  /\ dependency_graph = DiGraph
  /\ constructed = <<>>
  /\ log = <<>>
  /\ last = [op |-> "init", cls |-> "none", err |-> "none", ret |-> None]
  /\ repeats = "no"
  /\ started = FALSE
  /\ nregs = 0
  /\ ncalls = 0
  /\ accessor = None
  /\ NoThreads
  /\ NoRequests

\* the constructor of class c raised in the call recorded in lg
InitRaised(lg, c) ==
  \E i \in 1..Len(lg) : lg[i].ev = "init" /\ lg[i].cls = c /\ lg[i].exc # "none"

RECURSIVE AddEdges(_, _, _)
\* for dep in self._dependencies[c]: add_edge(dep, c)
AddEdges(G, deps, c) ==
  IF deps = <<>> THEN G ELSE AddEdges(add_edge(G, Head(deps), c), Tail(deps), c)

\* register(c, deps): GlobalObjectManager.register.decorator
register(c, deps) ==
  /\ nregs < MaxRegisters
  /\ nregs' = nregs + 1
  /\ instances' = SetItem(instances, c, None)
  /\ dependencies' = SetItem(dependencies, c, deps)
  /\ dependency_graph' = AddEdges(add_node(dependency_graph, c), deps, c)
  /\ constructed' = Remove(constructed, c)
  /\ log' = <<>>
  /\ started' = FALSE
  /\ repeats' = "no"
  /\ UNCHANGED <<ncalls, thread_vars, middleware_vars>>
  /\ accessor' = IF accessor # None /\ accessor.cls = c
                 THEN [accessor EXCEPT !.cached = FALSE] ELSE accessor
  /\ last' = [op |-> "register", cls |-> c, ret |-> None,
              err |-> IF is_directed_acyclic_graph(dependency_graph')
                      THEN "none" ELSE "CircularDependency"]

\* the object an accessor has captured, after a call that leaves the cache
\* as cache: it is the object of the cache entry until teardown() has
\* returned on it (for a proxy, teardown() deletes the payload)
Captured(cache) ==
  IF accessor = None \/ ~accessor.cached THEN accessor
  ELSE IF cache[accessor.cls] = None
  THEN [accessor EXCEPT !.cached = FALSE, !.instance.payload = FALSE]
  ELSE [accessor EXCEPT !.instance = cache[accessor.cls]]

\* a call of get, startup, shutdown or depends leaves the registrations alone
Manager ==
  /\ ncalls < MaxCalls
  /\ ncalls' = ncalls + 1
  /\ UNCHANGED <<dependencies, dependency_graph, nregs, thread_vars, middleware_vars>>

\* a call of get, startup or shutdown creates no accessor
Call ==
  /\ Manager
  /\ accessor' = Captured(instances')

\* the choices of the environment in a call: a method can raise only if the
\* call invokes it; quiet is the log of the call when nothing raises
Fails(fails, quiet, ev) ==
  {f \in fails : f = NoFail \/ \E i \in 1..Len(quiet) : quiet[i].ev = ev /\ quiet[i].cls = f.cls}

\* get that resolves another registered class as well when it has resolved cls
get_eager(cls, fail) ==
  LET st0 == get_instance(Entry, cls, fail, {})
      others == DOMAIN instances \ {cls}
      st == IF st0.err = "none" /\ others # {}
            THEN get_instance(st0, CHOOSE c \in others : TRUE, fail, {})
            ELSE st0
  IN /\ instances' = st.instances
     /\ constructed' = st.constructed
     /\ log' = st.log
     /\ last' = [op |-> "get", cls |-> cls, err |-> st.err,
                 ret |-> IF st.err = "none" THEN st.instances[cls] ELSE None]
     /\ repeats' = IF InitRaised(log, cls) THEN "get_after_init_raised" ELSE "no"
     /\ UNCHANGED started
     /\ Call

\* get(cls); no class of the repository passes a get_fn, so the instance
\* itself is returned
get(cls, fail) ==
  LET st == get_instance(Entry, cls, fail, {})
  IN /\ instances' = st.instances
     /\ constructed' = st.constructed
     /\ log' = st.log
     /\ last' = [op |-> "get", cls |-> cls, err |-> st.err,
                 ret |-> IF st.err = "none" THEN st.instances[cls] ELSE None]
     /\ repeats' = IF InitRaised(log, cls) THEN "get_after_init_raised" ELSE "no"
     /\ UNCHANGED started
     /\ Call

\* depends(cls): the instance is resolved when depends is called and the
\* Depends object wraps a function that returns this instance (get_fn is
\* None for every class of the repository)
depends(cls, fail) ==
  LET st == get_instance(Entry, cls, fail, {})
  IN /\ instances' = st.instances
     /\ constructed' = st.constructed
     /\ log' = st.log
     /\ last' = [op |-> "depends", cls |-> cls, err |-> st.err, ret |-> None]
     /\ accessor' = IF st.err = "none"
                    THEN [cls |-> cls, instance |-> st.instances[cls], cached |-> TRUE]
                    ELSE Captured(st.instances)
     /\ repeats' = "no"
     /\ UNCHANGED started
     /\ Manager

\* the framework calls the function of the Depends object for a request
invoke ==
  /\ accessor # None
  /\ last' = [op |-> "invoke", cls |-> accessor.cls, err |-> "none", ret |-> accessor.instance]
  /\ log' = <<>>
  /\ repeats' = "no"
  /\ UNCHANGED <<instances, dependencies, dependency_graph, constructed, started, nregs, ncalls, accessor,
                 thread_vars, middleware_vars>>

RECURSIVE StartupLoop(_, _, _)
\* for cls in order: self._get_instance(cls)
StartupLoop(st, order, fail) ==
  IF order = <<>> \/ st.err # "none" THEN st
  ELSE StartupLoop(get_instance(st, Head(order), fail, {}), Tail(order), fail)

\* startup(), ts the result of nx.topological_sort(self._dependency_graph):
\* topological_sort is a generator, it raises NetworkXUnfeasible only after
\* the nodes outside and not behind a cycle have been yielded
startup(ts, fail) ==
  LET st1 == StartupLoop(Entry, ts.order, fail)
      st == IF st1.err = "none" /\ ~ts.feasible
            THEN [st1 EXCEPT !.err = "NetworkXUnfeasible"] ELSE st1
  IN /\ instances' = st.instances
     /\ constructed' = st.constructed
     /\ log' = st.log
     /\ last' = [op |-> "startup", cls |-> "none", err |-> st.err, ret |-> None]
     /\ started' = (st.err = "none")
     /\ repeats' = "no"
     /\ Call

\* teardown without the reset of line 221
teardown_keep(st, cls, fail) ==
  LET raised == fail.cls = cls /\ fail.kind = "teardown_Exception"
      st1 == [st EXCEPT !.log = Append(@, Event("teardown", cls, IF raised THEN "Exception" ELSE "none",
                                                <<>>, <<>>))]
  IN IF raised
     THEN [st1 EXCEPT !.err = "Exception", !.instances[cls].teardown_raised = TRUE]
     ELSE st1

\* teardown() on the cached instance of cls, then the entry is reset
teardown(st, cls, fail) ==
  LET raised == fail.cls = cls /\ fail.kind = "teardown_Exception"
      st1 == [st EXCEPT !.log = Append(@, Event("teardown", cls, IF raised THEN "Exception" ELSE "none",
                                                <<>>, <<>>))]
  IN IF raised
     THEN [st1 EXCEPT !.err = "Exception", !.instances[cls].teardown_raised = TRUE]
     ELSE [st1 EXCEPT !.instances[cls] = None, !.constructed = Remove(@, cls)]

RECURSIVE ShutdownLoop(_, _, _)
\* for cls in reversed(order): self._instances[cls] raises KeyError for a
\* node of the graph that was never registered
ShutdownLoop(st, order, fail) ==
  IF order = <<>> \/ st.err # "none" THEN st
  ELSE LET cls == Head(order)
       IN IF cls \notin DOMAIN st.instances THEN [st EXCEPT !.err = "KeyError"]
          ELSE IF st.instances[cls] # None
          THEN ShutdownLoop(teardown(st, cls, fail), Tail(order), fail)
          ELSE ShutdownLoop(st, Tail(order), fail)

\* shutdown over the topological order itself, not its reverse
shutdown_forward(ts, fail) ==
  LET st == IF ~ts.feasible THEN [Entry EXCEPT !.err = "NetworkXUnfeasible"]
            ELSE ShutdownLoop(Entry, ts.order, fail)
  IN /\ instances' = st.instances
     /\ constructed' = st.constructed
     /\ log' = st.log
     /\ last' = [op |-> "shutdown", cls |-> "none", err |-> st.err, ret |-> None]
     /\ started' = FALSE
     /\ repeats' = IF last.op # "shutdown" THEN "no"
                   ELSE IF last.err # "none" THEN "shutdown_after_raise"
                   ELSE IF log # <<>> THEN "shutdown_after_teardown"
                   ELSE "shutdown_after_idle"
     /\ Call

\* shutdown(), ts the result of nx.topological_sort(self._dependency_graph):
\* list(topological_sort(...)) raises before any teardown when the graph has
\* a cycle
shutdown(ts, fail) ==
  LET st == IF ~ts.feasible THEN [Entry EXCEPT !.err = "NetworkXUnfeasible"]
            ELSE ShutdownLoop(Entry, Reverse(ts.order), fail)
  IN /\ instances' = st.instances
     /\ constructed' = st.constructed
     /\ log' = st.log
     /\ last' = [op |-> "shutdown", cls |-> "none", err |-> st.err, ret |-> None]
     /\ started' = FALSE
     /\ repeats' = IF last.op # "shutdown" THEN "no"
                   ELSE IF last.err # "none" THEN "shutdown_after_raise"
                   ELSE IF log # <<>> THEN "shutdown_after_teardown"
                   ELSE "shutdown_after_idle"
     /\ Call

Register == \E c \in Types, deps \in DepLists : register(c, deps)

Get ==
  \E cls \in Types :
    LET quiet == get_instance(Entry, cls, NoFail, {}).log
    IN \E fail \in Fails(ResolveFails, quiet, "init") : get(cls, fail)

Startup ==
  LET ts == topological_sort(dependency_graph)
      quiet == StartupLoop(Entry, ts.order, NoFail).log
  IN \E fail \in Fails(ResolveFails, quiet, "init") : startup(ts, fail)

Shutdown ==
  LET ts == topological_sort(dependency_graph)
      quiet == IF ts.feasible THEN ShutdownLoop(Entry, Reverse(ts.order), NoFail).log ELSE <<>>
  IN \E fail \in Fails(TeardownFails, quiet, "teardown") : shutdown(ts, fail)

Depends ==
  \E cls \in Types :
    LET quiet == get_instance(Entry, cls, NoFail, {}).log
    IN \E fail \in Fails(ResolveFails, quiet, "init") : depends(cls, fail)

Invoke == invoke

Next == Register \/ Get \/ Startup \/ Shutdown

Spec == Init /\ [][Next]_vars

\* the manager with the accessors of depends()
NextDepends == Register \/ Get \/ Startup \/ Shutdown \/ Depends \/ Invoke

SpecDepends == Init /\ [][NextDepends]_vars

(***************************************************************************)
(* Two execution contexts call get: _get_instance statement by statement.  *)
(* The manager takes no lock, so the contexts interleave between any two   *)
(* statements, and inside the constructors and setup() of the classes.     *)
(***************************************************************************)
\* the manager once the package is imported: the decorators of settings.py
\* and logging/__init__.py have registered AppSettings and Logger
InitImported ==
  /\ instances = [c \in {"AppSettings", "Logger"} |-> None]
  /\ dependencies = [c \in {"AppSettings", "Logger"} |->
                       IF c = "Logger" THEN <<"AppSettings">> ELSE <<>>]
  /\ dependency_graph = AddEdges(add_node(add_node(DiGraph, "AppSettings"), "Logger"),
                                 <<"AppSettings">>, "Logger")
  /\ constructed = <<>>
  /\ log = <<>>
  /\ last = [op |-> "register", cls |-> "Logger", err |-> "none", ret |-> None]
  /\ repeats = "no"
  /\ started = FALSE
  /\ nregs = 2
  /\ ncalls = 0
  /\ accessor = None
  /\ NoThreads
  /\ NoRequests

\* the frame of a call _get_instance(cls): pc is the statement it executes
\* next, i the position in the dependency list, target the object whose
\* setup() is running
Frame(cls) == [cls |-> cls, pc |-> "check", i |-> 1, dep_instances |-> <<>>, target |-> "none"]

\* the innermost frame of context t
Top(t) == frames[t][Len(frames[t])]

At(t, pc) == frames[t] # <<>> /\ Top(t).pc = pc

\* context t goes on in its innermost frame, which becomes f
Goto(t, f) ==
  /\ frames' = [frames EXCEPT ![t][Len(frames[t])] = f]
  /\ UNCHANGED last

\* an exception leaves every frame of context t: get raises it
Raise(t, err) ==
  /\ frames' = [frames EXCEPT ![t] = <<>>]
  /\ last' = [op |-> "get", cls |-> frames[t][1].cls, err |-> err, ret |-> None]

\* a statement of _get_instance leaves the registrations alone
Statement ==
  UNCHANGED <<dependencies, dependency_graph, log, repeats, started, nregs, ncalls, accessor,
              middleware_vars>>

\* context t calls get(cls)
thread_get(t, cls) ==
  /\ frames[t] = <<>>
  /\ ncalls < MaxCalls
  /\ ncalls' = ncalls + 1
  /\ frames' = [frames EXCEPT ![t] = <<Frame(cls)>>]
  /\ UNCHANGED <<instances, constructed, last, inits, setups>>
  /\ UNCHANGED <<dependencies, dependency_graph, log, repeats, started, nregs, accessor, middleware_vars>>

\* check that takes an entry for present only once setup() has completed on it
check_set_up(t) ==
  /\ At(t, "check")
  /\ LET cls == Top(t).cls
     IN IF cls \notin DOMAIN instances THEN Raise(t, "NotRegistered")
        ELSE Goto(t, [Top(t) EXCEPT !.pc = IF instances[cls] # None /\ instances[cls].setup_done
                                           THEN "return" ELSE "deps"])
  /\ UNCHANGED <<instances, constructed, inits, setups>>
  /\ Statement

\* lines 173-176: the tests `cls not in self._instances` and
\* `self._instances[cls] is None`
check(t) ==
  /\ At(t, "check")
  /\ LET cls == Top(t).cls
     IN IF cls \notin DOMAIN instances THEN Raise(t, "NotRegistered")
        ELSE Goto(t, [Top(t) EXCEPT !.pc = IF instances[cls] # None THEN "return" ELSE "deps"])
  /\ UNCHANGED <<instances, constructed, inits, setups>>
  /\ Statement

\* lines 179-180: the loop over the dependency list calls _get_instance(dep)
resolve(t) ==
  /\ At(t, "deps")
  /\ LET f == Top(t)
         deps == dependencies[f.cls]
     IN IF f.i > Len(deps) THEN Goto(t, [f EXCEPT !.pc = "construct"])
        ELSE /\ frames' = [frames EXCEPT ![t] = Append(@, Frame(deps[f.i]))]
             /\ UNCHANGED last
  /\ UNCHANGED <<instances, constructed, inits, setups>>
  /\ Statement

\* construct that tests the cache entry again and constructs only if it is
\* still absent
construct_if_absent(t, exc) ==
  /\ At(t, "construct")
  /\ IF instances[Top(t).cls] # None
     THEN /\ Goto(t, [Top(t) EXCEPT !.pc = "return"])
          /\ UNCHANGED inits
     ELSE /\ inits' = [inits EXCEPT ![Top(t).cls] = @ + 1]
          /\ IF exc = "none" THEN Goto(t, [Top(t) EXCEPT !.pc = "store"])
             ELSE Raise(t, IF exc = "TypeError" THEN "InstantiationFailed" ELSE exc)
  /\ UNCHANGED <<instances, constructed, setups>>
  /\ Statement

\* line 188, right-hand side: cls(**dep_instances) runs and returns the new
\* object or raises exc
construct(t, exc) ==
  /\ At(t, "construct")
  /\ inits' = [inits EXCEPT ![Top(t).cls] = @ + 1]
  /\ IF exc = "none" THEN Goto(t, [Top(t) EXCEPT !.pc = "store"])
     ELSE Raise(t, IF exc = "TypeError" THEN "InstantiationFailed" ELSE exc)
  /\ UNCHANGED <<instances, constructed, setups>>
  /\ Statement

\* line 188, the assignment: self._instances[cls] = the object that context
\* t has constructed
store(t) ==
  /\ At(t, "store")
  /\ instances' = [instances EXCEPT ![Top(t).cls] = [by |-> t] @@ NewInstance(Top(t).cls)]
  /\ constructed' = Append(Remove(constructed, Top(t).cls), Top(t).cls)
  /\ Goto(t, [Top(t) EXCEPT !.pc = "setup"])
  /\ UNCHANGED <<inits, setups>>
  /\ Statement

\* line 189: self._instances[cls] is read and setup() is called on it
setup_begin(t) ==
  /\ At(t, "setup")
  /\ Goto(t, [Top(t) EXCEPT !.pc = "in_setup", !.target = instances[Top(t).cls].by])
  /\ UNCHANGED <<instances, constructed, inits, setups>>
  /\ Statement

\* line 189: setup() returns or raises exc
setup_end(t, exc) ==
  /\ At(t, "in_setup")
  /\ LET f == Top(t)
     IN IF exc = "none"
        THEN /\ setups' = [setups EXCEPT ![f.cls] = @ + 1]
             /\ instances' = IF instances[f.cls].by = f.target
                             THEN [instances EXCEPT ![f.cls].setup_done = TRUE,
                                                    ![f.cls].payload = (f.cls \in ProxyTypes)]
                             ELSE instances
             /\ Goto(t, [f EXCEPT !.pc = "return"])
        ELSE /\ Raise(t, IF exc = "TypeError" THEN "InstantiationFailed" ELSE exc)
             /\ UNCHANGED <<instances, setups>>
  /\ UNCHANGED <<constructed, inits>>
  /\ Statement

\* line 193: return self._instances[cls], to get or to line 180 of the
\* calling frame (lines 182-184 then fill dep_instances)
return_instance(t) ==
  /\ At(t, "return")
  /\ LET f == Top(t)
         value == instances[f.cls]
         n == Len(frames[t])
     IN IF n = 1
        THEN /\ frames' = [frames EXCEPT ![t] = <<>>]
             /\ last' = [op |-> "get", cls |-> f.cls, err |-> "none", ret |-> value]
        ELSE LET caller == frames[t][n - 1]
                 name == param_name(f.cls)
             IN /\ frames' = [frames EXCEPT ![t] =
                                Append(SubSeq(@, 1, n - 2),
                                       [caller EXCEPT !.i = @ + 1,
                                                      !.dep_instances =
                                                        IF name = NoName THEN @
                                                        ELSE SetItem(@, name, [cls |-> f.cls, by |-> value.by])])]
                /\ UNCHANGED last
  /\ UNCHANGED <<instances, constructed, inits, setups>>
  /\ Statement

ThreadGet == \E t \in Contexts, cls \in Types : thread_get(t, cls)

Check == \E t \in Contexts : check(t)

Resolve == \E t \in Contexts : resolve(t)

Construct == \E t \in Contexts, exc \in {"none", "TypeError", "Exception"} : construct(t, exc)

Store == \E t \in Contexts : store(t)

SetupBegin == \E t \in Contexts : setup_begin(t)

SetupEnd ==
  \E t \in Contexts, exc \in {"none", "TypeError", "Exception", "RuntimeError"} : setup_end(t, exc)

Return == \E t \in Contexts : return_instance(t)

NextThreads ==
  ThreadGet \/ Check \/ Resolve \/ Construct \/ Store \/ SetupBegin \/ SetupEnd \/ Return

SpecThreads == InitImported /\ [][NextThreads]_vars

(***************************************************************************)
(* LoggingContextMiddleware.dispatch: the tasks of one event loop switch    *)
(* at `await call_next(request)` only                                       *)
(***************************************************************************)
\* str(uuid.uuid4()) for the n-th request: an identifier no other request has
uuid4(n) == "uuid-" \o ToString(n)

\* logger.bind(**kwargs): the bound arguments of the logger, updated with kwargs
bind(ctx, kwargs) == kwargs @@ ctx

\* the manager and the execution contexts take no part in a dispatch
Dispatch ==
  UNCHANGED <<instances, dependencies, dependency_graph, constructed, log, last, repeats, started,
              nregs, ncalls, accessor, thread_vars>>

\* lines 11-17, up to the await: task t binds the identifier and the path
\* of its request to the module-level logger and calls call_next
dispatch_begin(t, path) ==
  /\ requests[t].pc = "idle"
  /\ request_count < MaxRequests
  /\ request_count' = request_count + 1
  /\ LET request_id == uuid4(request_count')
     IN /\ logger' = bind(logger, [request_id |-> request_id, path |-> path])
        /\ requests' = [requests EXCEPT ![t] = [pc |-> "call_next", request_id |-> request_id,
                                                path |-> path, logged |-> <<>>]]
  /\ Dispatch

\* line 17: the application handles the request of task t and has its
\* response; logged is what the module-level logger carries while it does
call_next(t) ==
  /\ requests[t].pc = "call_next"
  /\ requests' = [requests EXCEPT ![t].pc = "response", ![t].logged = logger]
  /\ UNCHANGED <<logger, request_count>>
  /\ Dispatch

\* lines 18-21: task t resumes with the response, binds None to the
\* module-level logger and returns the response
dispatch_end(t) ==
  /\ requests[t].pc = "response"
  /\ logger' = bind(logger, [request_id |-> "None", path |-> "None"])
  /\ requests' = [requests EXCEPT ![t] = Idle]
  /\ UNCHANGED request_count
  /\ Dispatch

DispatchBegin == \E t \in Tasks, path \in Paths : dispatch_begin(t, path)

CallNext == \E t \in Tasks : call_next(t)

DispatchEnd == \E t \in Tasks : dispatch_end(t)

NextMiddleware == DispatchBegin \/ CallNext \/ DispatchEnd

SpecMiddleware == Init /\ [][NextMiddleware]_vars

(***************************************************************************)
(* Vocabulary of the properties                                            *)
(***************************************************************************)
\* the nodes reachable from the set S along one or more edges of G
RECURSIVE Descendants(_, _)
Descendants(G, S) ==
  LET T == S \cup {v \in Range(G.nodes) : \E u \in S : Contains(G.succ[u], v)}
  IN IF T = S THEN S ELSE Descendants(G, T)

Successors(G, n) == {v \in Range(G.nodes) : Contains(G.succ[n], v)}

\* n lies on a directed cycle of G
OnCycle(G, n) == n \in Descendants(G, Successors(G, n))

Acyclic(G) == \A n \in Range(G.nodes) : ~OnCycle(G, n)

Registered == DOMAIN instances

Cached(c) == c \in Registered /\ instances[c] # None

\* the calls of kind ev recorded in a log, as the sequence of their classes
Classes(lg, ev) ==
  LET sel == SelectSeq(lg, LAMBDA e : e.ev = ev)
  IN [i \in 1..Len(sel) |-> sel[i].cls]

IsPrefix(s, t) == Len(s) <= Len(t) /\ \A i \in 1..Len(s) : s[i] = t[i]

\* C1: after any sequence of register calls, accepted or rejected, no
\* directed cycle exists among the edges of the dependency graph
C1_GraphAcyclic == Acyclic(dependency_graph)

\* C2: a register call that fails with Circular-Dependency leaves the
\* registered types, the dependency lists and the graph as they were
C2_RejectedRegisterChangesNothing ==
  [][(last'.op = "register" /\ last'.err = "CircularDependency")
       => /\ DOMAIN instances' = DOMAIN instances
          /\ dependencies' = dependencies
          /\ dependency_graph' = dependency_graph]_vars

\* C3: whenever a constructor is invoked, every class in the dependency list
\* of the constructed class has an instance in the cache whose setup() has
\* completed
C3_DependenciesSetUpAtConstruction ==
  \A i \in 1..Len(log) :
    log[i].ev = "init" =>
      \A dep \in Range(dependencies[log[i].cls]) :
        /\ dep \in DOMAIN log[i].cache
        /\ log[i].cache[dep] # None
        /\ log[i].cache[dep].setup_done

\* C4 as claimed: a shutdown() that returns tears the cached instances down
\* in the exact reverse of the order in which they were constructed
C4_ReverseConstructionOrder ==
  [][(last'.op = "shutdown" /\ last'.err = "none")
       => Classes(log', "teardown") = Reverse(constructed)]_vars

\* C4 amended: shutdown() calls teardown() on the cached instances in the
\* reverse of the topological order of the dependency graph, on all of them
\* when it returns and on a prefix of them when it raises; a dependency is
\* never torn down before a class that lists it
C4_ReverseTopologicalOrder ==
  [][last'.op = "shutdown"
       => LET expected == SelectSeq(Reverse(topological_sort(dependency_graph).order),
                                    LAMBDA c : Cached(c))
              torn == Classes(log', "teardown")
          IN /\ IsPrefix(torn, expected)
             /\ last'.err = "none" => torn = expected
             /\ \A i, j \in 1..Len(torn) :
                  i < j => torn[i] \notin Range(dependencies[torn[j]])]_vars

\* a shutdown() has torn down a dependent and then its dependency
C4_Witness ==
  /\ last.op = "shutdown"
  /\ last.err = "none"
  /\ LET torn == Classes(log, "teardown")
     IN \E i, j \in 1..Len(torn) : i < j /\ torn[j] \in Range(dependencies[torn[i]])

C6_CachedIsSetUp ==
  \A c \in Registered :
    instances[c] # None =>
      /\ instances[c].setup_done
      /\ c \in ProxyTypes => instances[c].payload

Unregistered == {n \in Range(dependency_graph.nodes) : n \notin Registered}

\* a constructor, setup() or teardown() raised in the last call
MethodRaised == \E i \in 1..Len(log) : log[i].exc # "none"

\* C9: get of a class that was never registered fails with Not-Registered,
\* and so do startup() and shutdown() when they reach a node that was never
\* registered (the graph has no cycle and no method of a class raised)
C9_UnregisteredIsNotRegistered ==
  /\ (last.op = "get" /\ last.cls \notin Registered) => last.err = "NotRegistered"
  /\ (/\ last.op \in {"startup", "shutdown"}
      /\ Unregistered # {}
      /\ Acyclic(dependency_graph)
      /\ ~MethodRaised) => last.err = "NotRegistered"

IndexOf(s, x) == CHOOSE i \in 1..Len(s) : s[i] = x

\* C10: when a constructor or setup() raises in startup(), the nodes before
\* the failing node in the topological order are cached and set up, the
\* failing node and the nodes after it are absent from the cache, and no
\* method of a later node was called
C10_StartupStopsAtFailingNode ==
  (last.op = "startup" /\ log # <<>> /\ log[Len(log)].exc # "none") =>
    LET order == topological_sort(dependency_graph).order
        k == IndexOf(order, log[Len(log)].cls)
    IN /\ \A j \in 1..(k - 1) : Cached(order[j]) /\ instances[order[j]].setup_done
       /\ \A j \in k..Len(order) : ~Cached(order[j])
       /\ \A i \in 1..Len(log) : IndexOf(order, log[i].cls) <= k

\* C12: in every reachable state, also after a register call was rejected
\* with Circular-Dependency, the resolution started by get or startup() never
\* enters a class that is being resolved again, and it terminates
C12_ResolutionNeverReenters ==
  last.op \in {"get", "startup"} => last.err # "RecursionError"

\* C13: register fails with Circular-Dependency only when the edges of the
\* registered class close a cycle, so that the class lies on a cycle once
\* they are added; a register call whose edges close no cycle is accepted,
\* also when an earlier registration of other classes was rejected
C13_RejectedOnlyForOwnCycle ==
  [][(last'.op = "register" /\ ~OnCycle(dependency_graph', last'.cls))
       => last'.err = "none"]_vars

\* C16: a cache entry goes from present to absent only through teardown: no
\* instance whose setup() completed leaves the cache in a call that did not
\* call teardown() on it
C16_AbsentOnlyThroughTeardown ==
  [][\A c \in Registered :
       (instances[c] # None /\ instances[c].setup_done /\ instances'[c] = None)
         => \E i \in 1..Len(log') : log'[i].ev = "teardown" /\ log'[i].cls = c]_vars

\* the edges of a graph, as pairs
Edges(G) == {<<u, v>> \in Range(G.nodes) \X Range(G.nodes) : Contains(G.succ[u], v)}

\* C17: the dependency graph mirrors the registrations: its nodes are the
\* registered classes and its edges are exactly the pairs (d, c) with d in
\* the stored dependency list of c
C17_GraphMirrorsRegistrations ==
  /\ Range(dependency_graph.nodes) = Registered
  /\ Edges(dependency_graph) =
       {<<d, c>> \in Types \X Registered : d \in Range(dependencies[c])}

\* C18: the keyword arguments of a constructor call have exactly one entry
\* per class of the dependency list whose param_name() is not None, under
\* that name and holding the cached instance of that class; a dependency
\* whose param_name() is None is left out, and every dependency is in the
\* cache, constructed and set up, when the constructor is called
C18_NamedDependencyMap ==
  \A i \in 1..Len(log) :
    log[i].ev = "init" =>
      LET deps == Range(dependencies[log[i].cls])
          named == {d \in deps : param_name(d) # NoName}
      IN /\ DOMAIN log[i].kwargs = {param_name(d) : d \in named}
         /\ \A d \in named : log[i].kwargs[param_name(d)] = log[i].cache[d]
         /\ \A d \in deps : /\ d \in DOMAIN log[i].cache
                            /\ log[i].cache[d] # None
                            /\ log[i].cache[d].setup_done

\* the classes S and the classes they depend on, directly or not
RECURSIVE DependencyClosure(_)
DependencyClosure(S) ==
  LET T == S \cup {d \in Types : \E c \in S \cap DOMAIN dependencies :
                                   d \in Range(dependencies[c])}
  IN IF T = S THEN S ELSE DependencyClosure(T)

\* C19: resolution is lazy: a get that returns constructs only the class
\* asked for and those of its direct and indirect dependencies that were
\* absent, each once, and leaves the cache entry of every other registered
\* class as it was; register calls no constructor and fills no cache entry
C19_ResolutionIsLazy ==
  /\ [][(last'.op = "get" /\ last'.err = "none")
         => LET closure == DependencyClosure({last'.cls})
                built == Classes(log', "init")
            IN /\ \A i \in 1..Len(built) :
                    /\ built[i] \in closure
                    /\ instances[built[i]] = None
                    /\ \A j \in 1..Len(built) : built[j] = built[i] => j = i
               /\ \A c \in Registered \ closure : instances'[c] = instances[c]]_vars
  /\ [][last'.op = "register"
         => /\ log' = <<>>
            /\ \A c \in DOMAIN instances' :
                 instances'[c] # None => (c \in Registered /\ instances'[c] = instances[c])]_vars

\* a get has constructed the class asked for and has left another
\* registered class absent
C19_Witness ==
  /\ last.op = "get"
  /\ last.err = "none"
  /\ \E i \in 1..Len(log) : log[i].ev = "init" /\ log[i].cls = last.cls
  /\ \E c \in Registered \ DependencyClosure({last.cls}) : instances[c] = None

\* C11: depends(cls) constructs nothing when it is called, and every
\* invocation of the accessor it returned returns the instance that get(cls)
\* returns at that moment, the object of the cache entry, also after a
\* shutdown() and a new startup()
C11_AccessorResolvesAtInvocation ==
  /\ [][last'.op = "depends" => (log' = <<>> /\ instances' = instances)]_vars
  /\ [][last'.op = "invoke"
         => /\ accessor.cached
            /\ Cached(accessor.cls)
            /\ last'.ret = instances[accessor.cls]]_vars

\* context t executes a statement
Steps(t) == frames'[t] # frames[t]

\* C14: the manager takes no lock between the test of the cache entry, the
\* constructor call and the store: a context that found the entry absent
\* calls the constructor and stores its object whatever the other context
\* has stored since, so that two concurrent get of one absent class run its
\* constructor and setup() twice
C14_NoLockOnConstruction ==
  /\ [][\A t \in Contexts :
          (At(t, "construct") /\ Steps(t))
            => inits'[Top(t).cls] = inits[Top(t).cls] + 1]_vars
  /\ [][\A t \in Contexts :
          (At(t, "store") /\ Steps(t))
            => /\ instances'[Top(t).cls].by = t
               /\ ~instances'[Top(t).cls].setup_done]_vars

\* two get of a class that was absent have both returned: its constructor
\* has run twice and setup() has returned twice
C14_Witness ==
  /\ ncalls = 2
  /\ \A t \in Contexts : frames[t] = <<>>
  /\ last.op = "get"
  /\ last.err = "none"
  /\ inits[last.cls] = 2
  /\ setups[last.cls] = 2
  /\ Cached(last.cls)

\* C15: a get that finds the cache entry present returns the instance of
\* the entry whether or not setup() has completed on it: while one context
\* is between the store and the end of setup(), the get of another context
\* returns the half-built instance
C15_PresentEntryIsReturned ==
  /\ [][\A t \in Contexts :
          (At(t, "check") /\ Steps(t) /\ Cached(Top(t).cls))
            => frames'[t] = [frames[t] EXCEPT ![Len(frames[t])].pc = "return"]]_vars
  /\ [][\A t \in Contexts :
          (At(t, "return") /\ Steps(t) /\ Len(frames[t]) = 1)
            => /\ last'.err = "none"
               /\ last'.ret = instances[Top(t).cls]]_vars

\* a get has returned the instance that the other context has constructed
\* and stored and whose setup() that context has not completed
C15_Witness ==
  /\ last.op = "get"
  /\ last.err = "none"
  /\ ~last.ret.setup_done
  /\ inits[last.cls] = 1
  /\ \E t \in Contexts :
       /\ frames[t] # <<>>
       /\ Top(t).cls = last.cls
       /\ Top(t).pc \in {"setup", "in_setup"}
       /\ last.ret.by = t
       /\ instances[last.cls] = last.ret

\* C20: while a request is handled, from the bind of its identifier until
\* dispatch has the response of call_next, the module-level logger carries
\* the request_id and the path of that request, and so does what is logged
\* for it, however two requests dispatched concurrently interleave
C20_LoggerCarriesOwnRequest ==
  \A t \in Tasks :
    /\ requests[t].pc = "call_next"
         => /\ logger.request_id = requests[t].request_id
            /\ logger.path = requests[t].path
    /\ requests[t].pc = "response"
         => /\ requests[t].logged.request_id = requests[t].request_id
            /\ requests[t].logged.path = requests[t].path

====
